---- MODULE Spec2Model ----
(***************************************************************************)
(* dldist-file: OSA (restricted Damerau-Levenshtein) distances between all *)
(* pairs of lines of a file, computed on a thread pool (src/main.rs).      *)
(*                                                                         *)
(* Two state machines share this module:                                   *)
(*   SpecKernel  calculate_osa_distance_between_two_strings, one matrix    *)
(*               cell per step, inputs drawn from Strings;                 *)
(*   Spec        calculate_osa_distances: the submitting thread, the pool  *)
(*               workers, the job queue, the gate and the result channel.  *)
(* Strings are sequences of bytes (str::bytes); the kernel looks at bytes  *)
(* only through equality.                                                  *)
(***************************************************************************)
EXTENDS Integers, Sequences, FiniteSets, TLC

----------------------------------------------------------------------------
(* Bounds of the model *)

MaxLen == 3

Alphabet == {0, 1, 2}

MaxLines == 3

MaxThreads == 2

(* The largest n_pairs argument. *)
MaxNPairs == 4

(* The largest thread_num argument and the largest available parallelism. *)
MaxThreadArg == 6

MaxParallelism == 6

(* The line counts of a run of pair_combinations_count: 0..MaxCountArg and *)
(* the counts around which n * (n - 1) and n * (n - 1) / 2 leave 31 and    *)
(* 32 bits.                                                                *)
MaxCountArg == 60

(* main.rs:23 *)
NUM_ALL_THREADS_AVAILBLE == 0

(* main.rs:22 *)
NUM_PRINT_ALL == 0

----------------------------------------------------------------------------
VARIABLES
    (* calculate_osa_distance_between_two_strings *)
    str_a, str_b,       \* the two arguments
    kpc,                \* "entry" | "loop" | "returned"
    dist,               \* the matrix, dist[i][j], 0-based as in the code
    ki, kj,             \* the enumerate() indices of the two loops
    a_prior, b_prior,   \* the carried previous bytes
    kret,               \* the value returned
    (* calculate_osa_distances and its caller *)
    lines,              \* the lines of the file, in file order
    thread_num,         \* THREAD_NUM, the size of the pool
    spc,                \* position of the submitting (main) thread
    la, lb,             \* the two loop indices, 0-based as in the code
    jobs,               \* the pool's job channel, oldest first
    queued_count,       \* the pool's counter of jobs not yet taken
    active_count,       \* the pool's counter of jobs being run
    wpc,                \* position of each worker thread
    wjob,               \* the job each worker holds
    tx_count,           \* live Senders of the result channel
    rx,                 \* results in the channel, oldest first
    lock,               \* the gate's mutex: "free" | "main" | "worker"
    empty_trigger,      \* the pool's join mutex: "free" | "main"
    distance_results,   \* the collection returned to main
    (* main *)
    args,               \* the parsed Arguments
    parallelism,        \* thread::available_parallelism(): 0 for Err, else the count
    mpc,                \* position of main in its sequential parts
    n_lines,            \* lines_cnt as u32, the argument of pair_combinations_count
    combinations_cnt,   \* its result
    printed             \* the results printed, in order

kvars == <<str_a, str_b, kpc, dist, ki, kj, a_prior, b_prior, kret>>

svars == <<lines, thread_num, spc, la, lb, jobs, queued_count, active_count,
           wpc, wjob, tx_count, rx, lock, empty_trigger, distance_results>>

mvars == <<args, parallelism, mpc, n_lines, combinations_cnt, printed>>

vars == <<kvars, svars, mvars>>

----------------------------------------------------------------------------
(* Helpers *)

Min(x, y) == IF x <= y THEN x ELSE y

Max(x, y) == IF x >= y THEN x ELSE y

(* u32 arithmetic.  Every value the kernel computes is at most one more    *)
(* than the longer argument's length (DistanceBounded below), far from the *)
(* 2^32 at which a u32 wraps, so the additions and the `as u32` casts are  *)
(* exact here.                                                             *)
AddU32(x, y) == x + y

AsU32(x) == x

StringsOfLen(n) == [1..n -> Alphabet]

Strings == UNION {StringsOfLen(n) : n \in 0..MaxLen}

----------------------------------------------------------------------------
(* calculate_osa_distance_between_two_strings, main.rs:56-90 *)

(* main.rs:57-62: the zeroed matrix, then column 0, then row 0. *)
InitMatrixNoColumn(a, b) ==
    [i \in 0..Len(a) |-> [j \in 0..Len(b) |-> IF i = 0 THEN AsU32(j) ELSE 0]]

InitMatrixNoRow(a, b) ==
    [i \in 0..Len(a) |-> [j \in 0..Len(b) |-> IF j = 0 THEN AsU32(i) ELSE 0]]

InitMatrix(a, b) ==
    [i \in 0..Len(a) |->
        [j \in 0..Len(b) |->
            IF i = 0 THEN AsU32(j) ELSE IF j = 0 THEN AsU32(i) ELSE 0]]

(* main.rs:69 *)
CostAlwaysOne(a, b) == 1

CostTwo(a, b) == IF a = b THEN 0 ELSE 2

Cost(a, b) == IF a = b THEN 0 ELSE 1

(* main.rs:70-72: deletion, insertion, substitution. *)
BaseCell(d, i, j, cost) ==
    Min(Min(AddU32(d[i][j + 1], 1), AddU32(d[i + 1][j], 1)),
        AddU32(d[i][j], cost))

(* main.rs:74: the test guarding the transposition. *)
TranspositionNever(i, j, a, b, ap, bp) == FALSE

TranspositionTest(i, j, a, b, ap, bp) ==
    i > 0 /\ j > 0 /\ a = bp /\ ap = b

(* main.rs:68-79: one iteration of the inner loop, at indices (st.i, st.j). *)
InnerStep(st, sa, sb) ==
    LET i == st.i
        j == st.j
        a == sa[i + 1]
        b == sb[j + 1]
        base == BaseCell(st.dist, i, j, Cost(a, b))
        cell == IF TranspositionTest(i, j, a, b, st.a_prior, st.b_prior)
                THEN Min(base, AddU32(st.dist[i - 1][j - 1], 1))
                ELSE base
    IN  [st EXCEPT !.dist[i + 1][j + 1] = cell,
                   !.b_prior = b,
                   !.j = j + 1]

(* main.rs:81 and the next turn of the outer loop. *)
OuterStepKeepsPrior(st, sa, sb) ==
    [st EXCEPT !.i = st.i + 1, !.j = 0]

OuterStep(st, sa, sb) ==
    [st EXCEPT !.a_prior = sa[st.i + 1], !.i = st.i + 1, !.j = 0]

KernelStart(sa, sb) ==
    [dist |-> InitMatrix(sa, sb), i |-> 0, j |-> 0, a_prior |-> 0, b_prior |-> 0]

KernelStep(st, sa, sb) ==
    IF st.j < Len(sb) THEN InnerStep(st, sa, sb) ELSE OuterStep(st, sa, sb)

(* The loop nest run to its end.  The next state is bound as a value       *)
(* before the recursion goes on, so that it is computed once per step.     *)
RECURSIVE KernelRun(_, _, _)
KernelRun(st, sa, sb) ==
    IF st.i >= Len(sa)
    THEN st
    ELSE CHOOSE r \in {KernelRun(nx, sa, sb) : nx \in {KernelStep(st, sa, sb)}} : TRUE

(* main.rs:89 *)
calculate_osa_distance_between_two_strings(sa, sb) ==
    KernelRun(KernelStart(sa, sb), sa, sb).dist[Len(sa)][Len(sb)]

----------------------------------------------------------------------------
(* The scheduler's variables while only the kernel runs. *)


NoJob == [la |-> 0, lb |-> 0, line_a |-> <<>>, line_b |-> <<>>]

SIdle ==
    /\ lines = <<>>
    /\ thread_num = 1
    /\ spc = "idle"
    /\ la = 0
    /\ lb = 0
    /\ jobs = <<>>
    /\ queued_count = 0
    /\ active_count = 0
    /\ wpc = [w \in 1..1 |-> "recv"]
    /\ wjob = [w \in 1..1 |-> NoJob]
    /\ tx_count = 0
    /\ rx = <<>>
    /\ lock = "free"
    /\ empty_trigger = "free"
    /\ distance_results = <<>>

(* main's own variables while it is not in its sequential parts. *)
NoArgs == [thread_num |-> 1, descending |-> FALSE, normalize |-> FALSE, n_pairs |-> 0]

MIdle ==
    /\ args = NoArgs
    /\ parallelism = 0
    /\ mpc = "idle"
    /\ n_lines = 0
    /\ combinations_cnt = 0
    /\ printed = <<>>

----------------------------------------------------------------------------
(* The kernel as a state machine: one loop iteration per step. *)

KState == [dist |-> dist, i |-> ki, j |-> kj, a_prior |-> a_prior, b_prior |-> b_prior]

KInit ==
    /\ str_a \in Strings
    /\ str_b \in Strings
    /\ kpc = "entry"
    /\ dist = <<>>
    /\ ki = 0
    /\ kj = 0
    /\ a_prior = 0
    /\ b_prior = 0
    /\ kret = 0
    /\ SIdle
    /\ MIdle

(* main.rs:57-66 *)
KEnter ==
    /\ kpc = "entry"
    /\ LET st == KernelStart(str_a, str_b) IN
        /\ dist' = st.dist
        /\ ki' = st.i
        /\ kj' = st.j
        /\ a_prior' = st.a_prior
        /\ b_prior' = st.b_prior
    /\ kpc' = "loop"
    /\ UNCHANGED <<str_a, str_b, kret, svars, mvars>>

(* main.rs:68-80 *)
KInner ==
    /\ kpc = "loop"
    /\ ki < Len(str_a)
    /\ kj < Len(str_b)
    /\ LET st == InnerStep(KState, str_a, str_b) IN
        /\ dist' = st.dist
        /\ ki' = st.i
        /\ kj' = st.j
        /\ a_prior' = st.a_prior
        /\ b_prior' = st.b_prior
    /\ UNCHANGED <<str_a, str_b, kpc, kret, svars, mvars>>

(* main.rs:67, 81 *)
KOuter ==
    /\ kpc = "loop"
    /\ ki < Len(str_a)
    /\ kj >= Len(str_b)
    /\ LET st == OuterStep(KState, str_a, str_b) IN
        /\ dist' = st.dist
        /\ ki' = st.i
        /\ kj' = st.j
        /\ a_prior' = st.a_prior
        /\ b_prior' = st.b_prior
    /\ UNCHANGED <<str_a, str_b, kpc, kret, svars, mvars>>

(* main.rs:89 *)
KReturn ==
    /\ kpc = "loop"
    /\ ki >= Len(str_a)
    /\ kret' = dist[Len(str_a)][Len(str_b)]
    /\ kpc' = "returned"
    /\ UNCHANGED <<str_a, str_b, dist, ki, kj, a_prior, b_prior, svars, mvars>>

KNext == KEnter \/ KInner \/ KOuter \/ KReturn

SpecKernel == KInit /\ [][KNext]_vars

----------------------------------------------------------------------------
(* calculate_osa_distances, main.rs:93-150, and the size check of main.    *)
(*                                                                         *)
(* The pool is threadpool::ThreadPool: execute() adds one to queued_count  *)
(* and sends the job down the pool's channel; a worker receives a job,     *)
(* adds one to active_count, takes one from queued_count, runs the job,    *)
(* takes one from active_count and, if no work is left, notifies the       *)
(* threads in join().  queued_count() and max_count() read queued_count    *)
(* and the pool size.                                                      *)

(* The file: a run reads its first n lines, n \in 0..MaxLines.  It has     *)
(* two empty lines, a transposed pair and an equal pair.                   *)
Corpus == << <<0, 1>>, <<>>, <<1, 0>>, <<>>, <<0, 1>>, <<0, 1, 2>> >>

Workers == 1..thread_num

lines_cnt == Len(lines)

(* u32 arithmetic of main.rs:43-53.  A u32 below 2^31 is a number here;    *)
(* the product of two of them is kept exactly, as its part above 2^32      *)
(* (high) and the four bytes below it (low, least significant first), so   *)
(* that no number of the model leaves 32 bits.                             *)
BytesU32(x) ==
    <<x % 256, (x \div 256) % 256, (x \div 65536) % 256, x \div 16777216>>

WideMul(x, y) ==
    LET a == BytesU32(x)
        b == BytesU32(y)
        c0 == a[1] * b[1]
        c1 == a[1] * b[2] + a[2] * b[1]
        c2 == a[1] * b[3] + a[2] * b[2] + a[3] * b[1]
        c3 == a[1] * b[4] + a[2] * b[3] + a[3] * b[2] + a[4] * b[1]
        c4 == a[2] * b[4] + a[3] * b[3] + a[4] * b[2]
        c5 == a[3] * b[4] + a[4] * b[3]
        c6 == a[4] * b[4]
        t1 == c1 + (c0 \div 256)
        t2 == c2 + (t1 \div 256)
        t3 == c3 + (t2 \div 256)
    IN  [high |-> c4 + (c5 * 256) + (c6 * 65536) + (t3 \div 256),
         low  |-> <<c0 % 256, t1 % 256, t2 % 256, t3 % 256>>]

(* u32 * u32 leaves 32 bits: a panic with overflow checks (debug builds),  *)
(* a product taken modulo 2^32 without them (release builds).              *)
MulOverflows(x, y) == WideMul(x, y).high > 0

(* The u32 with the bytes low, divided by 2. *)
HalfU32(low) ==
    (low[4] * 8388608) + ((low[3] * 65536 + low[2] * 256 + low[1]) \div 2)

(* main.rs:43-53, without overflow checks *)
pair_combinations_count(num) ==
    IF num < 2 THEN 0 ELSE HalfU32(WideMul(num, num - 1).low)

(* ThreadPool::max_count *)
max_count == thread_num

(* threadpool's has_work: queued_count > 0 || active_count > 0 *)
HasWork == queued_count > 0 \/ active_count > 0

(* main.rs:139: the condition under which the submitter waits. *)
GateClosedStrict == queued_count > max_count

GateClosedAlways == TRUE

GateClosed == queued_count >= max_count

(* main.rs:107: the inner loop starts at la. *)
InnerStartZero(a) == 0

InnerStart(a) == a

(* main.rs:108: the test for a self-comparison. *)
SelfComparisonNever(a, b) == FALSE

SelfComparison(a, b) == a = b

(* main.rs:132: Condvar::notify_one, as seen by the submitter: it is woken *)
(* if it waits at the gate, and nothing happens otherwise.                 *)
NotifyLost(p) == p

NotifyOne(p) == IF p = "gate_wait" THEN "gate_woken" ELSE p

(* main.rs:112-113: the job captures copies of the two lines and la, lb. *)
NewJob(a, b) ==
    [la |-> a, lb |-> b, line_a |-> lines[a + 1], line_b |-> lines[b + 1]]

(* main.rs:125: (distance as f32) / mean_line_length, where the mean is    *)
(* len_sum * 0.5.  An f32 is kept as the fraction num / den it stands for: *)
(* 0.0 / 0.0 is NaN, a positive value over 0.0 is infinite (den = 0), and  *)
(* the lengths here are small enough for f32 to hold the operands exactly. *)
NaN == [nan |-> TRUE, num |-> 0, den |-> 0]

DivF32(distance, len_sum) ==
    IF distance = 0 /\ len_sum = 0
    THEN NaN
    ELSE [nan |-> FALSE, num |-> 2 * distance, den |-> len_sum]

(* f32::partial_cmp(x, y) = Some(Less); it is None when either is NaN. *)
LessF32(x, y) == ~x.nan /\ ~y.nan /\ x.num * y.den < y.num * x.den

(* main.rs:117-126: the DistanceResult a job sends.  len_sum stands for    *)
(* _mean_line_len, which is len_sum * 0.5.                                 *)
JobResultSharedIndex(job) ==
    LET b == IF lb < lines_cnt THEN lines[lb + 1] ELSE <<>>
        d == calculate_osa_distance_between_two_strings(job.line_a, b) IN
    [line_a  |-> job.la,
     line_b  |-> job.lb,
     len_sum |-> Len(job.line_a) + Len(b),
     dldist  |-> d,
     normalized_dldist |-> DivF32(d, Len(job.line_a) + Len(b))]

JobResult(job) ==
    LET distance == calculate_osa_distance_between_two_strings(job.line_a, job.line_b) IN
    [line_a  |-> job.la,
     line_b  |-> job.lb,
     len_sum |-> Len(job.line_a) + Len(job.line_b),
     dldist  |-> distance,
     normalized_dldist |-> DivF32(distance, Len(job.line_a) + Len(job.line_b))]

(* main.rs:120: Sender::send on the results channel, which is first in,   *)
(* first out.                                                              *)
SendFront(q, r) == <<r>> \o q

Send(q, r) == Append(q, r)

KIdle ==
    /\ str_a = <<>>
    /\ str_b = <<>>
    /\ kpc = "idle"
    /\ dist = <<>>
    /\ ki = 0
    /\ kj = 0
    /\ a_prior = 0
    /\ b_prior = 0
    /\ kret = 0

(* main.rs:94-104: the pool with its idle workers, the channel with its    *)
(* one Sender tx, the free mutex.                                          *)
InitWith(file) ==
    /\ KIdle
    /\ MIdle
    /\ \E n \in 0..MaxLines : lines = SubSeq(file, 1, n)
    /\ thread_num \in 1..MaxThreads
    /\ spc = "outer"
    /\ la = 0
    /\ lb = 0
    /\ jobs = <<>>
    /\ queued_count = 0
    /\ active_count = 0
    /\ wpc = [w \in Workers |-> "recv"]
    /\ wjob = [w \in Workers |-> NoJob]
    /\ tx_count = 1
    /\ rx = <<>>
    /\ lock = "free"
    /\ empty_trigger = "free"
    /\ distance_results = <<>>

Init == InitWith(Corpus)

(* A file that begins with two empty lines. *)
BlankCorpus == << <<>>, <<>>, <<0, 1>>, <<>>, <<1>> >>

InitBlank == InitWith(BlankCorpus)

(* ---- the submitting thread ---- *)

(* main.rs:106-107: the outer loop yields la; the inner loop starts at la. *)
SOuterEnter ==
    /\ spc = "outer"
    /\ la < lines_cnt
    /\ lb' = InnerStart(la)
    /\ spc' = "inner"
    /\ UNCHANGED <<kvars, mvars, lines, thread_num, la, jobs, queued_count, active_count,
                   wpc, wjob, tx_count, rx, lock, empty_trigger, distance_results>>

(* main.rs:106, 144: the outer loop is exhausted. *)
SOuterExit ==
    /\ spc = "outer"
    /\ la >= lines_cnt
    /\ spc' = "drop_tx"
    /\ UNCHANGED <<kvars, mvars, lines, thread_num, la, lb, jobs, queued_count, active_count,
                   wpc, wjob, tx_count, rx, lock, empty_trigger, distance_results>>

(* main.rs:107, 143: the inner loop is exhausted. *)
SInnerExit ==
    /\ spc = "inner"
    /\ lb >= lines_cnt
    /\ la' = la + 1
    /\ spc' = "outer"
    /\ UNCHANGED <<kvars, mvars, lines, thread_num, lb, jobs, queued_count, active_count,
                   wpc, wjob, tx_count, rx, lock, empty_trigger, distance_results>>

(* main.rs:108-111 *)
SSkipSelf ==
    /\ spc = "inner"
    /\ lb < lines_cnt
    /\ SelfComparison(la, lb)
    /\ lb' = lb + 1
    /\ UNCHANGED <<kvars, mvars, lines, thread_num, spc, la, jobs, queued_count, active_count,
                   wpc, wjob, tx_count, rx, lock, empty_trigger, distance_results>>

(* main.rs:112-133: clone the lines and tx, pool.execute(job). *)
SExecute ==
    /\ spc = "inner"
    /\ lb < lines_cnt
    /\ ~SelfComparison(la, lb)
    /\ tx_count' = tx_count + 1
    /\ queued_count' = queued_count + 1
    /\ jobs' = Append(jobs, NewJob(la, lb))
    /\ spc' = "gate_lock"
    /\ UNCHANGED <<kvars, mvars, lines, thread_num, la, lb, active_count,
                   wpc, wjob, rx, lock, empty_trigger, distance_results>>

(* main.rs:138 *)
SGateLock ==
    /\ spc = "gate_lock"
    /\ lock = "free"
    /\ lock' = "main"
    /\ spc' = "gate_check"
    /\ UNCHANGED <<kvars, mvars, lines, thread_num, la, lb, jobs, queued_count, active_count,
                   wpc, wjob, tx_count, rx, empty_trigger, distance_results>>

(* main.rs:139-140: the gate is closed: cvar.wait releases the mutex. *)
SGateWait ==
    /\ spc \in {"gate_check", "gate_recheck"}
    /\ GateClosed
    /\ lock' = "free"
    /\ spc' = "gate_wait"
    /\ UNCHANGED <<kvars, mvars, lines, thread_num, la, lb, jobs, queued_count, active_count,
                   wpc, wjob, tx_count, rx, empty_trigger, distance_results>>

(* main.rs:139, 142: the gate is open: the guard is dropped, next lb. *)
SGatePass ==
    /\ spc \in {"gate_check", "gate_recheck"}
    /\ ~GateClosed
    /\ lock' = "free"
    /\ lb' = lb + 1
    /\ spc' = "inner"
    /\ UNCHANGED <<kvars, mvars, lines, thread_num, la, jobs, queued_count, active_count,
                   wpc, wjob, tx_count, rx, empty_trigger, distance_results>>

(* main.rs:140: Condvar::wait may return without a notification. *)
SSpuriousWake ==
    /\ spc = "gate_wait"
    /\ spc' = "gate_spurious"
    /\ UNCHANGED <<kvars, mvars, lines, thread_num, la, lb, jobs, queued_count, active_count,
                   wpc, wjob, tx_count, rx, lock, empty_trigger, distance_results>>

(* main.rs:139-140: the woken thread takes the mutex again before wait     *)
(* returns, and the loop tests the gate again: at gate_recheck after a     *)
(* notification, at gate_check after a return without one.                 *)
SGateRelock ==
    /\ spc \in {"gate_woken", "gate_spurious"}
    /\ lock = "free"
    /\ lock' = "main"
    /\ spc' = IF spc = "gate_woken" THEN "gate_recheck" ELSE "gate_check"
    /\ UNCHANGED <<kvars, mvars, lines, thread_num, la, lb, jobs, queued_count, active_count,
                   wpc, wjob, tx_count, rx, empty_trigger, distance_results>>

(* main.rs:145-146: tx goes out of scope. *)
SDropTx ==
    /\ spc = "drop_tx"
    /\ tx_count' = tx_count - 1
    /\ spc' = "join"
    /\ UNCHANGED <<kvars, mvars, lines, thread_num, la, lb, jobs, queued_count, active_count,
                   wpc, wjob, rx, lock, empty_trigger, distance_results>>

(* main.rs:147: join() with no work left returns at once. *)
SJoinFast ==
    /\ spc = "join"
    /\ ~HasWork
    /\ spc' = "collect"
    /\ UNCHANGED <<kvars, mvars, lines, thread_num, la, lb, jobs, queued_count, active_count,
                   wpc, wjob, tx_count, rx, lock, empty_trigger, distance_results>>

(* main.rs:147: join() takes the pool's empty_trigger mutex. *)
SJoinLock ==
    /\ spc = "join"
    /\ HasWork
    /\ empty_trigger = "free"
    /\ empty_trigger' = "main"
    /\ spc' = "join_check"
    /\ UNCHANGED <<kvars, mvars, lines, thread_num, la, lb, jobs, queued_count, active_count,
                   wpc, wjob, tx_count, rx, lock, distance_results>>

(* main.rs:147: join() waits on empty_condvar while there is work. *)
SJoinWait ==
    /\ spc = "join_check"
    /\ HasWork
    /\ empty_trigger' = "free"
    /\ spc' = "join_wait"
    /\ UNCHANGED <<kvars, mvars, lines, thread_num, la, lb, jobs, queued_count, active_count,
                   wpc, wjob, tx_count, rx, lock, distance_results>>

(* main.rs:147: join() returns. *)
SJoinDone ==
    /\ spc = "join_check"
    /\ ~HasWork
    /\ empty_trigger' = "free"
    /\ spc' = "collect"
    /\ UNCHANGED <<kvars, mvars, lines, thread_num, la, lb, jobs, queued_count, active_count,
                   wpc, wjob, tx_count, rx, lock, distance_results>>

(* main.rs:147: the wait of join() may return without a notification. *)
SJoinSpuriousWake ==
    /\ spc = "join_wait"
    /\ spc' = "join_woken"
    /\ UNCHANGED <<kvars, mvars, lines, thread_num, la, lb, jobs, queued_count, active_count,
                   wpc, wjob, tx_count, rx, lock, empty_trigger, distance_results>>

(* main.rs:147: the woken join() takes empty_trigger again. *)
SJoinRelock ==
    /\ spc = "join_woken"
    /\ empty_trigger = "free"
    /\ empty_trigger' = "main"
    /\ spc' = "join_check"
    /\ UNCHANGED <<kvars, mvars, lines, thread_num, la, lb, jobs, queued_count, active_count,
                   wpc, wjob, tx_count, rx, lock, distance_results>>

(* main.rs:149: rx.iter() ends once every Sender is dropped and the        *)
(* channel is drained; collect() keeps the order of arrival.               *)
SCollect ==
    /\ spc = "collect"
    /\ tx_count = 0
    /\ distance_results' = rx
    /\ rx' = <<>>
    /\ spc' = "returned"
    /\ UNCHANGED <<kvars, mvars, lines, thread_num, la, lb, jobs, queued_count, active_count,
                   wpc, wjob, tx_count, lock, empty_trigger>>

(* main.rs:219-239: main calls with two lines or more and checks the size. *)
MainSizeCheck ==
    /\ spc = "returned"
    /\ lines_cnt >= 2
    /\ spc' = IF Len(distance_results) # pair_combinations_count(lines_cnt)
              THEN "panicked"
              ELSE "checked"
    /\ UNCHANGED <<kvars, mvars, lines, thread_num, la, lb, jobs, queued_count, active_count,
                   wpc, wjob, tx_count, rx, lock, empty_trigger, distance_results>>

(* ---- main after the size check: sort and print ---- *)

(* main.rs:245-265: the comparator handed to sort_by reports Less.  With   *)
(* unwrap_or(Ordering::Equal) a NaN compares Equal to everything.          *)
ComparesLess(a, b, normalize, descending) ==
    IF normalize
    THEN IF descending
         THEN LessF32(b.normalized_dldist, a.normalized_dldist)
         ELSE LessF32(a.normalized_dldist, b.normalized_dldist)
    ELSE IF descending
         THEN b.dldist < a.dldist
         ELSE a.dldist < b.dldist

(* slice::sort_by is stable; on slices this short it is an insertion sort: *)
(* each element moves left past the elements it compares Less than.        *)
InsertTail(sorted, x, normalize, descending) ==
    LET n == Len(sorted)
        m == CHOOSE m \in 0..n :
                /\ \A j \in (n - m + 1)..n : ComparesLess(x, sorted[j], normalize, descending)
                /\ m = n \/ ~ComparesLess(x, sorted[n - m], normalize, descending)
    IN  SubSeq(sorted, 1, n - m) \o <<x>> \o SubSeq(sorted, n - m + 1, n)

RECURSIVE SortPrefix(_, _, _, _)
SortPrefix(results, k, normalize, descending) ==
    IF k = 0
    THEN <<>>
    ELSE LET sorted == CHOOSE r \in {SortPrefix(results, k - 1, normalize, descending)} : TRUE
         IN  InsertTail(sorted, results[k], normalize, descending)

sort_by(results, normalize, descending) ==
    SortPrefix(results, Len(results), normalize, descending)

(* main.rs:267, 282-286 *)
PrintCountNoAll(n_pairs, cnt) == Min(cnt, n_pairs)

PrintCount(n_pairs, cnt) ==
    LET print_cnt_limit == Min(cnt, n_pairs) IN
    IF n_pairs = NUM_PRINT_ALL THEN cnt ELSE print_cnt_limit

(* main.rs:245-265.  The flags normalize and descending and the count      *)
(* n_pairs are read here for the first time, so the run draws them here.   *)
MainSort ==
    /\ spc = "checked"
    /\ \E normalize \in BOOLEAN, descending \in BOOLEAN, n_pairs \in 0..MaxNPairs :
          /\ args' = [thread_num |-> thread_num, descending |-> descending,
                      normalize |-> normalize, n_pairs |-> n_pairs]
          /\ distance_results' = sort_by(distance_results, normalize, descending)
    /\ spc' = "sorted"
    /\ UNCHANGED <<kvars, parallelism, mpc, n_lines, combinations_cnt, printed,
                   lines, thread_num, la, lb, jobs, queued_count, active_count,
                   wpc, wjob, tx_count, rx, lock, empty_trigger>>

(* main.rs:287-309: print distance_results[i] for i in 0..print_cnt; an    *)
(* index past the end panics.                                              *)
MainPrint ==
    /\ spc = "sorted"
    /\ LET print_cnt == PrintCount(args.n_pairs, pair_combinations_count(lines_cnt)) IN
          IF print_cnt > Len(distance_results)
          THEN /\ printed' = distance_results
               /\ spc' = "index_panic"
          ELSE /\ printed' = SubSeq(distance_results, 1, print_cnt)
               /\ spc' = "printed"
    /\ UNCHANGED <<kvars, args, parallelism, mpc, n_lines, combinations_cnt,
                   lines, thread_num, la, lb, jobs, queued_count, active_count,
                   wpc, wjob, tx_count, rx, lock, empty_trigger, distance_results>>

(* ---- a worker thread of the pool ---- *)

(* threadpool worker loop: receive the next job. *)
WRecv(w) ==
    /\ wpc[w] = "recv"
    /\ active_count < max_count
    /\ jobs # <<>>
    /\ wjob' = [wjob EXCEPT ![w] = Head(jobs)]
    /\ jobs' = Tail(jobs)
    /\ wpc' = [wpc EXCEPT ![w] = "taken"]
    /\ UNCHANGED <<kvars, mvars, lines, thread_num, spc, la, lb, queued_count, active_count,
                   tx_count, rx, lock, empty_trigger, distance_results>>

(* threadpool worker loop: active_count.fetch_add(1). *)
WActive(w) ==
    /\ wpc[w] = "taken"
    /\ active_count' = active_count + 1
    /\ wpc' = [wpc EXCEPT ![w] = "counted"]
    /\ UNCHANGED <<kvars, mvars, lines, thread_num, spc, la, lb, jobs, queued_count,
                   wjob, tx_count, rx, lock, empty_trigger, distance_results>>

(* threadpool worker loop: queued_count.fetch_sub(1). *)
WDequeued(w) ==
    /\ wpc[w] = "counted"
    /\ queued_count' = queued_count - 1
    /\ wpc' = [wpc EXCEPT ![w] = "run"]
    /\ UNCHANGED <<kvars, mvars, lines, thread_num, spc, la, lb, jobs, active_count,
                   wjob, tx_count, rx, lock, empty_trigger, distance_results>>

(* main.rs:117-127: compute the distance and send the result. *)
WCompute(w) ==
    /\ wpc[w] = "run"
    /\ rx' = Send(rx, JobResult(wjob[w]))
    /\ wpc' = [wpc EXCEPT ![w] = "locking"]
    /\ UNCHANGED <<kvars, mvars, lines, thread_num, spc, la, lb, jobs, queued_count, active_count,
                   wjob, tx_count, lock, empty_trigger, distance_results>>

(* main.rs:130-133: lock, notify_one, and the return of the job, which     *)
(* drops _guard and then the captured tx_child.  One step: it runs under   *)
(* the mutex, and nothing but the gate reads what it writes.  notify_one   *)
(* wakes the submitter if it waits at the gate.                            *)
WNotify(w) ==
    /\ wpc[w] = "locking"
    /\ lock = "free"
    /\ spc' = NotifyOne(spc)
    /\ tx_count' = tx_count - 1
    /\ wjob' = [wjob EXCEPT ![w] = NoJob]
    /\ wpc' = [wpc EXCEPT ![w] = "done"]
    /\ UNCHANGED <<kvars, mvars, lines, thread_num, la, lb, jobs, queued_count, active_count,
                   rx, lock, empty_trigger, distance_results>>

(* threadpool worker loop: active_count.fetch_sub(1). *)
WInactive(w) ==
    /\ wpc[w] = "done"
    /\ active_count' = active_count - 1
    /\ wpc' = [wpc EXCEPT ![w] = "nowork"]
    /\ UNCHANGED <<kvars, mvars, lines, thread_num, spc, la, lb, jobs, queued_count,
                   wjob, tx_count, rx, lock, empty_trigger, distance_results>>

(* threadpool no_work_notify_all with work left: nothing to do. *)
WStillWork(w) ==
    /\ wpc[w] = "nowork"
    /\ HasWork
    /\ wpc' = [wpc EXCEPT ![w] = "recv"]
    /\ UNCHANGED <<kvars, mvars, lines, thread_num, spc, la, lb, jobs, queued_count, active_count,
                   wjob, tx_count, rx, lock, empty_trigger, distance_results>>

(* threadpool no_work_notify_all with no work left: pass through the       *)
(* empty_trigger mutex and notify_all, which wakes a thread in join().     *)
WNoWorkNotify(w) ==
    /\ wpc[w] = "nowork"
    /\ ~HasWork
    /\ empty_trigger = "free"
    /\ spc' = IF spc = "join_wait" THEN "join_woken" ELSE spc
    /\ wpc' = [wpc EXCEPT ![w] = "recv"]
    /\ UNCHANGED <<kvars, mvars, lines, thread_num, la, lb, jobs, queued_count, active_count,
                   wjob, tx_count, rx, lock, empty_trigger, distance_results>>

(* main.rs:116-133: the job panics in the worker, in the kernel before    *)
(* its result is sent or after the send before notify_one.  Unwinding      *)
(* drops the captured tx_child and runs neither send nor notify_one; the   *)
(* pool's Sentinel then takes one from active_count, calls                 *)
(* no_work_notify_all and starts a thread in place of the one lost, which  *)
(* are the steps WInactive, WStillWork and WNoWorkNotify.  The panic stays *)
(* in the worker thread.                                                   *)
WPanic(w) ==
    /\ wpc[w] \in {"run", "locking"}
    /\ tx_count' = tx_count - 1
    /\ wjob' = [wjob EXCEPT ![w] = NoJob]
    /\ wpc' = [wpc EXCEPT ![w] = "done"]
    /\ UNCHANGED <<kvars, mvars, lines, thread_num, spc, la, lb, jobs, queued_count, active_count,
                   rx, lock, empty_trigger, distance_results>>

Submitter ==
    \/ SOuterEnter \/ SOuterExit \/ SInnerExit \/ SSkipSelf \/ SExecute
    \/ SGateLock \/ SGateWait \/ SGatePass \/ SGateRelock
    \/ SDropTx \/ SJoinFast \/ SJoinLock \/ SJoinWait \/ SJoinDone \/ SJoinRelock
    \/ SCollect \/ MainSizeCheck

Worker(w) ==
    \/ WRecv(w) \/ WActive(w) \/ WDequeued(w) \/ WCompute(w) \/ WNotify(w)
    \/ WInactive(w) \/ WStillWork(w) \/ WNoWorkNotify(w)

Next ==
    \/ Submitter
    \/ SSpuriousWake
    \/ SJoinSpuriousWake
    \/ \E w \in Workers : Worker(w)
    \/ MainSort
    \/ MainPrint

Spec == Init /\ [][Next]_vars

(* Scheduling: a thread that can take a step is not held back for ever,    *)
(* and a worker that can take the gate's mutex again and again gets it.    *)
(* A wait that returns without a notification is possible, never promised. *)
FairSpec ==
    /\ Init
    /\ [][Next]_vars
    /\ WF_vars(Submitter)
    /\ \A w \in 1..MaxThreads : SF_vars(w \in Workers /\ Worker(w))

(* The runs in which jobs may panic. *)
NextFail ==
    \/ Next
    \/ \E w \in Workers : WPanic(w)

SpecFail == Init /\ [][NextFail]_vars

(* The runs over the file that begins with two empty lines. *)
SpecBlank == InitBlank /\ [][Next]_vars

----------------------------------------------------------------------------
(* Properties of calculate_osa_distances *)

(* The workers that hold a job they have received and not yet returned from. *)
Holding == {w \in Workers : wpc[w] \in {"taken", "counted", "run", "locking"}}

(* Jobs submitted and not finished: queued in the pool or held by a worker. *)
InFlight == Len(jobs) + Cardinality(Holding)

Returned == spc \in {"returned", "checked", "panicked", "sorted", "printed", "index_panic"}

(* C1: backpressure: the jobs submitted and not finished (queued plus      *)
(* executing) never number more than twice the pool size, and neither do   *)
(* the pool's own counters queued_count + active_count.                    *)
BackpressureCap ==
    /\ InFlight <= 2 * thread_num
    /\ queued_count + active_count <= 2 * thread_num

(* C1 witness: the cap is reached and the submitter waits at the gate.     *)
CapReachedAtGate ==
    /\ InFlight = 2 * thread_num
    /\ spc = "gate_wait"
    /\ Cardinality(Holding) = thread_num

Terminates ==
    /\ <>(spc = "returned")
    /\ (spc = "gate_wait") ~> (spc = "inner")
    /\ (spc = "join") ~> (spc = "collect")

(* C3 witness: the submitter waits at a closed gate while no worker is on  *)
(* its way to notify: its admission rests on a job not yet finished.       *)
GateWaitNeedsLaterNotify ==
    /\ spc = "gate_wait"
    /\ GateClosed
    /\ \A w \in Workers : wpc[w] # "locking"
    /\ Holding # {}

(* C4: determinism: the set of (line_a, line_b, dldist) returned is the    *)
(* same function of the lines in every run, whatever the pool size and the *)
(* interleaving: the kernel's distance of lines i and j for each i < j.    *)
Triple(r) == <<r.line_a, r.line_b, r.dldist>>

ExpectedTriples ==
    UNION {{<<i, j, calculate_osa_distance_between_two_strings(lines[i + 1], lines[j + 1])>> :
              j \in (i + 1)..(lines_cnt - 1)} : i \in 0..(lines_cnt - 1)}

ResultSetDeterministic ==
    Returned =>
        {Triple(distance_results[k]) : k \in 1..Len(distance_results)} = ExpectedTriples

(* C4 witness: two workers, results returned in an order that is not the   *)
(* order of submission, among them the transposed pair at distance 1.      *)
TwoWorkersReordered ==
    /\ spc = "returned"
    /\ thread_num = 2
    /\ Len(distance_results) = 3
    /\ Triple(distance_results[1]) = <<0, 2, 1>>
    /\ Triple(distance_results[2]) = <<0, 1, 2>>

----------------------------------------------------------------------------
(* The reference recurrence of the optimal string alignment distance:      *)
(* RefCell(a, b, i, j) is the distance between the first i bytes of a and  *)
(* the first j bytes of b.                                                 *)

RECURSIVE RefCell(_, _, _, _)
RefCell(a, b, i, j) ==
    IF i = 0 THEN j
    ELSE IF j = 0 THEN i
    ELSE LET del == RefCell(a, b, i - 1, j) + 1
             ins == RefCell(a, b, i, j - 1) + 1
             sub == RefCell(a, b, i - 1, j - 1) + (IF a[i] = b[j] THEN 0 ELSE 1)
             m   == Min(Min(del, ins), sub)
         IN  IF i > 1 /\ j > 1 /\ a[i] = b[j - 1] /\ a[i - 1] = b[j]
             THEN Min(m, RefCell(a, b, i - 2, j - 2) + 1)
             ELSE m

Kitten == <<107, 105, 116, 116, 101, 110>>

Sitting == <<115, 105, 116, 116, 105, 110, 103>>

(* C5: the kernel computes the reference recurrence: the matrix it returns *)
(* from holds RefCell in every cell, the value returned is the bottom-right*)
(* cell, and whenever the transposition test is evaluated with i > 0 and   *)
(* j > 0 the carried a_prior and b_prior are a[i-1] and b[j-1].  "ab" vs   *)
(* "ba" gives 1 and "kitten" vs "sitting" gives 3.                         *)
KernelEqualsReference ==
    /\ kpc = "returned" =>
        /\ kret = RefCell(str_a, str_b, Len(str_a), Len(str_b))
        /\ \A i \in 0..Len(str_a) : \A j \in 0..Len(str_b) :
              dist[i][j] = RefCell(str_a, str_b, i, j)
    /\ (kpc = "loop" /\ ki < Len(str_a) /\ kj < Len(str_b) /\ ki > 0 /\ kj > 0) =>
        /\ a_prior = str_a[ki]
        /\ b_prior = str_b[kj]
    /\ (kpc = "returned" /\ str_a = <<0, 1>> /\ str_b = <<1, 0>>) =>
        /\ kret = 1
        /\ calculate_osa_distance_between_two_strings(Kitten, Sitting) = 3

(* C5 witness: a run in which the transposition decided the result.        *)
KernelTranspositionReturned ==
    /\ kpc = "returned"
    /\ str_a = <<1, 2>>
    /\ str_b = <<2, 1>>
    /\ kret = 1

(* C6: symmetry: the value returned for (a, b) is the value the kernel     *)
(* computes for (b, a).                                                    *)
KernelSymmetric ==
    kpc = "returned" =>
        kret = calculate_osa_distance_between_two_strings(str_b, str_a)

(* C6 witness: two different arguments of different lengths, returned.     *)
KernelAsymmetricArgsReturned ==
    /\ kpc = "returned"
    /\ Len(str_a) = 1
    /\ Len(str_b) = 3
    /\ kret = 2

(* C7: if either argument is empty the distance is the length of the other.*)
EmptyOperand ==
    (kpc = "returned" /\ (str_a = <<>> \/ str_b = <<>>)) =>
        kret = Max(Len(str_a), Len(str_b))

(* C7 witness: an empty first argument against a non-empty second.         *)
EmptyOperandReturned ==
    /\ kpc = "returned"
    /\ str_a = <<>>
    /\ Len(str_b) = 2
    /\ kret = 2

(* C8: the distance of a byte sequence to itself is 0.                     *)
IdentityIsZero ==
    (kpc = "returned" /\ str_a = str_b) => kret = 0

(* C8 witness: two equal non-empty arguments, returned.                    *)
IdenticalReturned ==
    /\ kpc = "returned"
    /\ str_a = str_b
    /\ Len(str_a) = 3
    /\ kret = 0

TriangleViolated ==
    (kpc = "returned" /\ str_a = <<2, 0>> /\ str_b = <<0, 1, 2>>) =>
        /\ kret = 3
        /\ kret > calculate_osa_distance_between_two_strings(<<2, 0>>, <<0, 2>>)
                  + calculate_osa_distance_between_two_strings(<<0, 2>>, <<0, 1, 2>>)

(* C10 witness: the kernel has returned 3 for "CA" against "ABC".          *)
TriangleTripleReturned ==
    /\ kpc = "returned"
    /\ str_a = <<2, 0>>
    /\ str_b = <<0, 1, 2>>
    /\ kret = 3
    /\ calculate_osa_distance_between_two_strings(<<2, 0>>, <<0, 2>>) = 1
    /\ calculate_osa_distance_between_two_strings(<<0, 2>>, <<0, 1, 2>>) = 1

----------------------------------------------------------------------------
(* Properties of the scheduler, continued *)

(* Row-major order of two pairs of line indices. *)
RowMajorBefore(a1, b1, a2, b2) == a1 < a2 \/ (a1 = a2 /\ b1 < b2)

RowMajorSorted(results) ==
    \A k \in 1..(Len(results) - 1) :
        RowMajorBefore(results[k].line_a, results[k].line_b,
                       results[k + 1].line_a, results[k + 1].line_b)

(* C11: with a pool of one worker at most one job executes at any time,    *)
(* the jobs execute in the order of their submission (every result sent    *)
(* is of an earlier pair than the job executing, or is its own, and the    *)
(* job executing is of an earlier pair than every job queued), the         *)
(* results arrive in the returned                                          *)
(* collection in row-major order of their pairs, and the set of results    *)
(* is the one every run returns, whatever the number of workers.           *)
SequentialAtOneWorker ==
    thread_num = 1 =>
        /\ Cardinality(Holding) <= 1
        /\ active_count <= 1
        /\ RowMajorSorted(rx)
        /\ \A w \in Holding :
              /\ \A k \in 1..Len(rx) :
                    \/ RowMajorBefore(rx[k].line_a, rx[k].line_b, wjob[w].la, wjob[w].lb)
                    \/ /\ wpc[w] = "locking"
                       /\ k = Len(rx)
                       /\ <<rx[k].line_a, rx[k].line_b>> = <<wjob[w].la, wjob[w].lb>>
              /\ \A k \in 1..Len(jobs) :
                    RowMajorBefore(wjob[w].la, wjob[w].lb, jobs[k].la, jobs[k].lb)
        /\ spc \in {"returned", "checked", "panicked"} =>
              /\ RowMajorSorted(distance_results)
              /\ {Triple(distance_results[k]) : k \in 1..Len(distance_results)}
                     = ExpectedTriples

(* C11 witness: one worker has returned the three results of three lines   *)
(* in the order (0,1), (0,2), (1,2).                                       *)
OneWorkerReturnedInOrder ==
    /\ thread_num = 1
    /\ spc = "returned"
    /\ Len(distance_results) = 3
    /\ <<distance_results[1].line_a, distance_results[1].line_b>> = <<0, 1>>
    /\ <<distance_results[2].line_a, distance_results[2].line_b>> = <<0, 2>>
    /\ <<distance_results[3].line_a, distance_results[3].line_b>> = <<1, 2>>

(* No thread of the pool has anything left to do. *)
PoolIdle == jobs = <<>> /\ \A w \in Workers : wpc[w] = "recv"

(* C12: a job that panics in a worker is fatal to the run: the submitter   *)
(* is never left waiting at the gate with no job left to signal it, and    *)
(* main never goes past its size check with a collection that lacks a      *)
(* pair.                                                                   *)
WorkerFailureFatal ==
    /\ ~(spc = "gate_wait" /\ PoolIdle)
    /\ spc = "checked" =>
          {Triple(distance_results[k]) : k \in 1..Len(distance_results)} = ExpectedTriples

(* C13: a pair of two empty lines (mean length 0) gets a defined           *)
(* normalized_dldist: no DistanceResult sent, collected or sorted carries  *)
(* the NaN of 0.0 / 0.0, and none reaches the sort by normalized distance. *)
NormalizedDefined ==
    /\ \A k \in 1..Len(rx) : ~rx[k].normalized_dldist.nan
    /\ \A k \in 1..Len(distance_results) : ~distance_results[k].normalized_dldist.nan

----------------------------------------------------------------------------
(* main.rs:191-204 and main.rs:96: the size of the pool.                   *)

(* main.rs:199-203.  available_parallelism() is Err (here 0) or a NonZero  *)
(* count; unwrap_or replaces Err by NonZero 1 + 1.                         *)
ResolveThreadNum(arg, available) ==
    IF arg = NUM_ALL_THREADS_AVAILBLE
    THEN (IF available = 0 THEN 1 + 1 ELSE available) - 1
    ELSE arg

InitResolve ==
    /\ KIdle
    /\ SIdle
    /\ \E t \in 0..MaxThreadArg : args = [NoArgs EXCEPT !.thread_num = t]
    /\ parallelism \in 0..MaxParallelism
    /\ mpc = "parsed"
    /\ n_lines = 0
    /\ combinations_cnt = 0
    /\ printed = <<>>

(* main.rs:191-204: THREAD_NUM is set. *)
MainResolveThreads ==
    /\ mpc = "parsed"
    /\ thread_num' = ResolveThreadNum(args.thread_num, parallelism)
    /\ mpc' = "resolved"
    /\ UNCHANGED <<kvars, args, parallelism, n_lines, combinations_cnt, printed,
                   lines, spc, la, lb, jobs, queued_count, active_count,
                   wpc, wjob, tx_count, rx, lock, empty_trigger, distance_results>>

(* main.rs:96: ThreadPool::new(THREAD_NUM), which asserts a size of at     *)
(* least one and panics otherwise.                                         *)
PoolNew ==
    /\ mpc = "resolved"
    /\ mpc' = IF thread_num >= 1 THEN "pool" ELSE "pool_panic"
    /\ UNCHANGED <<kvars, svars, args, parallelism, n_lines, combinations_cnt, printed>>

NextResolve == MainResolveThreads \/ PoolNew

SpecResolve == InitResolve /\ [][NextResolve]_vars

(* C14: for every thread_num argument and every outcome of the query for   *)
(* the available parallelism, the worker count stored in THREAD_NUM and    *)
(* used to build the pool is at least 1; with thread_num = 0 it is the     *)
(* available parallelism minus 1, and 1 when the query fails.              *)
ResolvedWorkerCountPositive ==
    mpc \in {"resolved", "pool", "pool_panic"} =>
        /\ thread_num >= 1
        /\ mpc # "pool_panic"
        /\ (args.thread_num = 0 /\ parallelism >= 1) => thread_num = parallelism - 1
        /\ (args.thread_num = 0 /\ parallelism = 0) => thread_num = 1
        /\ args.thread_num > 0 => thread_num = args.thread_num

----------------------------------------------------------------------------
(* Properties of the gate and of the enumeration of pairs *)

(* C15, as claimed: whenever the submitter is suspended at the gate, at    *)
(* least 2 * T jobs are queued or running.                                 *)
GateWaitsOnlyAtCap == spc = "gate_wait" => InFlight >= 2 * thread_num

(* C15: whenever the submitter is suspended at the gate, at least T jobs   *)
(* are queued or running: it waits when it finds queued_count >= T,        *)
(* whatever the number of jobs running, and while it stays suspended no    *)
(* job finishes without waking it.                                         *)
GateWaitsAtQueuedT == spc = "gate_wait" => InFlight >= thread_num

(* C15 witness: the submitter is suspended with two workers and two jobs   *)
(* in flight, fewer than 2 * T.                                            *)
GateWaitBelowCap ==
    /\ spc = "gate_wait"
    /\ thread_num = 2
    /\ InFlight = 2

(* C16, as claimed: the submitter woken by a notification is admitted: it  *)
(* does not return to waiting from the test that follows that signal.      *)
WakeAdmits == [][spc = "gate_recheck" => spc' \in {"gate_recheck", "inner"}]_vars

(* C16: the submitter woken by a notification tests the gate again under   *)
(* the mutex: it returns to waiting if queued_count >= T still holds and   *)
(* is admitted otherwise; once admitted it makes exactly one submission    *)
(* before it tests the gate again.                                         *)
WakeRetestsGate ==
    [][/\ (spc = "gate_recheck" /\ spc' # "gate_recheck") =>
             IF queued_count >= thread_num
             THEN spc' = "gate_wait" /\ lb' = lb
             ELSE spc' = "inner" /\ lb' = lb + 1
       /\ (spc # "gate_lock" /\ spc' = "gate_lock") =>
             /\ spc = "inner"
             /\ jobs' = Append(jobs, NewJob(la, lb))
       /\ Len(jobs') > Len(jobs) => spc' = "gate_lock"
      ]_vars

(* C16 witness: the submitter woken by a notification holds the mutex      *)
(* again and finds the gate still closed.                                  *)
WokenFindsGateClosed ==
    /\ spc = "gate_recheck"
    /\ queued_count >= thread_num

(* The pairs 0 <= i < j < n, and the number of them that come before the   *)
(* position (i, j) in row-major order.                                     *)
AllPairs == {p \in (0..(lines_cnt - 1)) \X (0..(lines_cnt - 1)) : p[1] < p[2]}

PairsBefore(i, j) == Cardinality({p \in AllPairs : RowMajorBefore(p[1], p[2], i, j)})

(* The jobs submitted so far: those whose result is sent, and those queued *)
(* or held whose result is not.                                            *)
Submitted ==
    Len(rx) + Len(distance_results) + Len(jobs)
        + Cardinality({w \in Workers : wpc[w] \in {"taken", "counted", "run"}})

LoopDone == spc \notin {"outer", "inner", "gate_lock", "gate_check", "gate_recheck",
                        "gate_wait", "gate_woken", "gate_spurious"}

(* C17: the submitter submits one job per pair 0 <= i < j < n in row-major *)
(* order: the k-th job submitted is of the k-th pair, none is of a         *)
(* self-pair or of a pair with i > j, the loops end after n*(n-1)/2        *)
(* submissions (none for n < 2), and every DistanceResult has              *)
(* line_a < line_b.                                                        *)
EnumeratesRowMajor ==
    /\ \A k \in 1..Len(jobs) :
          /\ <<jobs[k].la, jobs[k].lb>> \in AllPairs
          /\ PairsBefore(jobs[k].la, jobs[k].lb) + 1 = Submitted - Len(jobs) + k
          /\ jobs[k].line_a = lines[jobs[k].la + 1]
          /\ jobs[k].line_b = lines[jobs[k].lb + 1]
    /\ spc = "inner" => Submitted = PairsBefore(la, lb)
    /\ LoopDone =>
          Submitted = (IF lines_cnt < 2 THEN 0 ELSE (lines_cnt * (lines_cnt - 1)) \div 2)
    /\ \A k \in 1..Len(rx) : rx[k].line_a < rx[k].line_b
    /\ \A k \in 1..Len(distance_results) :
          distance_results[k].line_a < distance_results[k].line_b

(* C17 witness: the jobs of the pairs (0,2) and (1,2) are queued, in the   *)
(* order of their submission.                                              *)
TwoJobsQueuedInOrder ==
    /\ Len(jobs) = 2
    /\ <<jobs[1].la, jobs[1].lb>> = <<0, 2>>
    /\ <<jobs[2].la, jobs[2].lb>> = <<1, 2>>

----------------------------------------------------------------------------
(* main.rs:218-227: the expected number of results.                        *)

CountArgs == (0..MaxCountArg) \cup {46341, 46342, 65536, 65537, 92682, 92683}

InitPairs ==
    /\ KIdle
    /\ SIdle
    /\ args = NoArgs
    /\ parallelism = 0
    /\ mpc = "lines_read"
    /\ n_lines \in CountArgs
    /\ combinations_cnt = 0
    /\ printed = <<>>

(* main.rs:219-225 *)
MainTooFewLines ==
    /\ mpc = "lines_read"
    /\ n_lines < 2
    /\ mpc' = "too_few"
    /\ UNCHANGED <<kvars, svars, args, parallelism, n_lines, combinations_cnt, printed>>

(* main.rs:227: pair_combinations_count(lines_cnt as u32) returns. *)
MainPairCount ==
    /\ mpc = "lines_read"
    /\ n_lines >= 2
    /\ combinations_cnt' = pair_combinations_count(n_lines)
    /\ mpc' = "counted"
    /\ UNCHANGED <<kvars, svars, args, parallelism, n_lines, printed>>

(* main.rs:227, 51: with overflow checks, num * (num - 1) panics when it   *)
(* leaves 32 bits.                                                         *)
MainPairCountPanic ==
    /\ mpc = "lines_read"
    /\ n_lines >= 2
    /\ MulOverflows(n_lines, n_lines - 1)
    /\ mpc' = "overflow_panic"
    /\ UNCHANGED <<kvars, svars, args, parallelism, n_lines, combinations_cnt, printed>>

NextPairs == MainTooFewLines \/ MainPairCount \/ MainPairCountPanic

SpecPairs == InitPairs /\ [][NextPairs]_vars

(* n * (n - 1) / 2 fits in a u32: n * (n - 1) is below 2^33. *)
TrueCountFitsU32(n) == n < 2 \/ WideMul(n, n - 1).high < 2

(* n * (n - 1) / 2 with the even factor halved first, for n <= 65536. *)
HalvedProduct(n) ==
    IF n % 2 = 0 THEN (n \div 2) * (n - 1) ELSE n * ((n - 1) \div 2)

(* C18: pair_combinations_count(n) is 0 for n < 2 and n*(n-1)/2 otherwise; *)
(* the product n*(n-1) in 32-bit arithmetic does not wrap for any n whose  *)
(* true pair count fits in a u32, so the expected count main compares      *)
(* with is the true number of pairs.                                       *)
PairCountExact ==
    /\ n_lines < 2 => pair_combinations_count(n_lines) = 0
    /\ (mpc \in {"counted", "overflow_panic"} /\ TrueCountFitsU32(n_lines)) =>
          /\ mpc = "counted"
          /\ ~MulOverflows(n_lines, n_lines - 1)
          /\ combinations_cnt = HalvedProduct(n_lines)

----------------------------------------------------------------------------
(* Properties of the sort and the print loop of main *)

(* The results main leaves unprinted. *)
Unprinted == SubSeq(distance_results, Len(printed) + 1, Len(distance_results))

(* C19: after the size check has passed with C results, main prints C      *)
(* results when n_pairs = 0 and min(n_pairs, C) otherwise, never indexing  *)
(* past the end; the results printed are the first of the sorted           *)
(* collection, which holds the results collected; sorted by raw distance,  *)
(* ascending, no result left unprinted has a dldist below that of a        *)
(* printed one, and descending none has one above.                         *)
PrintsTopResults ==
    /\ spc # "index_panic"
    /\ spc \in {"sorted", "printed"} =>
          /\ Len(distance_results) = (lines_cnt * (lines_cnt - 1)) \div 2
          /\ {Triple(distance_results[k]) : k \in 1..Len(distance_results)} = ExpectedTriples
    /\ spc = "printed" =>
          /\ Len(printed) = (IF args.n_pairs = 0
                              THEN Len(distance_results)
                              ELSE Min(args.n_pairs, Len(distance_results)))
          /\ printed = SubSeq(distance_results, 1, Len(printed))
          /\ (~args.normalize /\ ~args.descending) =>
                \A i \in 1..Len(printed) : \A j \in 1..Len(Unprinted) :
                    Unprinted[j].dldist >= printed[i].dldist
          /\ (~args.normalize /\ args.descending) =>
                \A i \in 1..Len(printed) : \A j \in 1..Len(Unprinted) :
                    Unprinted[j].dldist <= printed[i].dldist

(* C19 witness: of three results main has printed two in ascending order,  *)
(* the first with a smaller distance than the one left unprinted.          *)
TopTwoOfThreePrinted ==
    /\ spc = "printed"
    /\ ~args.normalize
    /\ ~args.descending
    /\ args.n_pairs = 2
    /\ Len(printed) = 2
    /\ Len(distance_results) = 3
    /\ printed[1].dldist < distance_results[3].dldist

====
